---- MODULE Spec2Model ----
(***************************************************************************)
(* Heartbeat-gated secret custody (deadhand): the users table, the         *)
(* create_vault / heartbeat / change_beneficiary request handlers, the     *)
(* check_heartbeats cron sweep and the billing webhook of src/app/main.py, *)
(* with the envelope crypto of src/app/crypto.py.                          *)
(*                                                                         *)
(* Every handler owns a SQLAlchemy session (get_db): it reads rows with a  *)
(* query, works on the loaded objects, and writes the changed columns at   *)
(* db.commit().  No row is locked, so a handler is modelled as its read    *)
(* step and its commit step, and other handlers may commit in between.     *)
(* Time is counted in whole days, the resolution of timedelta.days.        *)
(***************************************************************************)
EXTENDS Integers, Sequences, FiniteSets, TLC

VARIABLES now, users, reqs, sweeps, nextTok, outbox, disclosed, disc, hist, resp,
          _passkey_challenges

vars == <<now, users, reqs, sweeps, nextTok, outbox, disclosed, disc, hist, resp,
          _passkey_challenges>>

(***************************************************************************)
(* Bounds and input domains.                                               *)
(***************************************************************************)
\* Heartbeat tokens that create_vault may generate in one behaviour.
MaxVaults == 2
\* Disclosures of one vault that are followed (a release that is repeated).
MaxDisclosures == 2
\* The last day of the day-by-day clock.
MaxDay == 92
\* Longest form field of the commitment's inputs, in characters.
MaxFieldLen == 2
\* Length of a stored credential, and the longest credential presented.
MaxCredLen == 3
\* WebAuthn challenges generated in one behaviour, and the last minute of
\* the minute-by-minute clock.
MaxChallenges == 2
MaxMinute == 7
\* The last day of the clock under which a sweep runs every day.
LastDay == 125

\* Owner e-mail addresses; the row of an owner is found by e-mail or by id.
Owners == {"o1", "o2"}
\* Custody secrets (shard_c form values) and beneficiary addresses.
Secrets == {"s1", "s2"}
Beneficiaries == {"b1", "b2"}
\* Days at which the clock is observed: the differences cover every tier
\* (29 remind, 61 warn, 90 release) and no tier (0, 32, 61 - 29).
Instants == {0, 29, 61, 90}
\* 12-byte nonces os.urandom may return.
Nonces == {"n1"}
\* Request slots (concurrent HTTP requests) and sweep invocations.
Slots == {1, 2}
SweepIds == {1, 2}

(***************************************************************************)
(* Values held in String columns: NULL, a text, a generated token, a       *)
(* base64 AES-GCM envelope, a SHA-256 hex digest.                          *)
(***************************************************************************)
None == [t |-> "none"]
Txt(s) == [t |-> "str", v |-> s]
Tok(i) == [t |-> "tok", n |-> i]
\* NULL in a DateTime column.
NoTime == -1

\* os.getenv('SECRET_KEY', 'changeme_in_prod')
SERVER_MASTER_KEY == Txt("SECRET_KEY")

\* hashlib.sha256(x.encode()).digest(): one-way, modelled as a collision-free
\* constructor; None has no encode() and raises.
Sha256(x) == [t |-> "sha256", of |-> x]

derive_key(heartbeat_token) == Sha256(heartbeat_token)

\* AESGCM(key).encrypt(nonce, plaintext), base64(nonce || ciphertext || tag).
AesGcm(key, nonce, plaintext) ==
    [t |-> "b64gcm", key |-> key, nonce |-> nonce, pt |-> plaintext]

encrypt_shard_rawKey(shard, heartbeat_token, nonce) ==
    AesGcm(heartbeat_token, nonce, shard)

encrypt_shard(shard, heartbeat_token, nonce) ==
    AesGcm(derive_key(heartbeat_token), nonce, shard)

\* A call either returns a value or raises.
Ret(v) == [ok |-> TRUE, val |-> v]
Raise == [ok |-> FALSE, val |-> None]

\* b64decode + AESGCM.decrypt: the tag verifies only under the sealing key.
AesGcmOpen(key, data) ==
    IF data.t = "b64gcm" /\ data.key = key THEN Ret(data.pt) ELSE Raise

decrypt_shard(encrypted_shard, heartbeat_token) ==
    IF heartbeat_token = None \/ encrypted_shard = None
    THEN Raise
    ELSE AesGcmOpen(derive_key(heartbeat_token), encrypted_shard)

encrypt_token(token, master_key, nonce) ==
    AesGcm(Sha256(master_key), nonce, token)

\* Any failure falls back to returning the stored value as it is.
decrypt_token_asStored(encrypted_token, master_key) == encrypted_token

decrypt_token(encrypted_token, master_key) ==
    LET r == IF encrypted_token = None
             THEN Raise
             ELSE AesGcmOpen(Sha256(master_key), encrypted_token)
    IN  IF r.ok THEN r.val ELSE encrypted_token

\* What an f-string puts in place of a value: the characters of a form
\* field, one after the other; every other value is one symbol that holds
\* no separator (a base64 string, None).
Formatted(x) == IF x.t = "chars" THEN x.v ELSE <<x>>

\* f"{beneficiary_email}|{shard_c}|{created}", then SHA-256 hex. The ISO
\* form of the creation time holds no "|" and is one symbol.
ConfigString(beneficiary, shard, created) ==
    Formatted(beneficiary) \o <<"|">> \o Formatted(shard) \o <<"|", created>>

ConfigHash(beneficiary, shard, created) ==
    [t |-> "hex", pre |-> ConfigString(beneficiary, shard, created)]

\* secrets.compare_digest(a, b): TypeError unless both are strings.
CompareDigest(a, b) ==
    IF a = None \/ b = None THEN Raise ELSE Ret(a = b)

(***************************************************************************)
(* The users table (models.User), one row per e-mail address.              *)
(***************************************************************************)
NoRow ==
    [exists |-> FALSE, beneficiary_email |-> None, shard_c |-> None,
     config_hash |-> None, last_heartbeat |-> NoTime, is_dead |-> FALSE,
     heartbeat_token |-> None, stripe_subscription_id |-> FALSE,
     is_active |-> FALSE, passkey_credential_id |-> None, created_at |-> NoTime]

\* INSERT of User(email=...): the column defaults of models.User.
NewRow(t) ==
    [exists |-> TRUE, beneficiary_email |-> None, shard_c |-> None,
     config_hash |-> None, last_heartbeat |-> t, is_dead |-> FALSE,
     heartbeat_token |-> None, stripe_subscription_id |-> FALSE,
     is_active |-> TRUE, passkey_credential_id |-> None, created_at |-> t]

Response(op, o, status) == [op |-> op, owner |-> o, status |-> status]

\* The step returned nothing to a caller (yet).
NoResponse == Response("none", "o1", "none")

Idle == [op |-> "idle"]
SweepIdle == [pc |-> "idle"]

\* _passkey_challenges.get(email) of an e-mail that has no entry.
NoStash == [challenge |-> None, expires |-> NoTime]

\* What is remembered about each owner's vault to state the claims.
\* custody, token: the secret and the heartbeat token of the last create_vault
\* that committed; renewAt: the time of the vault's last successful heartbeat; chg: a
\* change_beneficiary has committed; oob: a column was edited out of band;
\* relAt, relBen, relChg, relOk: the time is_dead was committed, and the
\* stored beneficiary, chg, and whether the stored hash matched the stored
\* columns, at that moment; welcomed: the heartbeat tokens that successful
\* create_vault calls have delivered for the vault the row holds; noticed:
\* the kinds of notice that noting sweeps have handed to send_email for the
\* owner while last_heartbeat had the value since; sweptAt: the clock
\* reading of the last noting sweep.
NoHist ==
    [custody |-> None, token |-> None, renewAt |-> NoTime, chg |-> FALSE,
     oob |-> FALSE, relAt |-> NoTime, relBen |-> None, relChg |-> FALSE,
     relOk |-> FALSE, welcomed |-> {},
     noticed |-> [since |-> NoTime, kinds |-> {}], sweptAt |-> NoTime]

Init ==
    /\ now = 0
    /\ users = [o \in Owners |-> NoRow]
    /\ reqs = [c \in Slots |-> Idle]
    /\ sweeps = [s \in SweepIds |-> SweepIdle]
    /\ nextTok = 1
    /\ outbox = {}
    /\ disclosed = {}
    /\ disc = [o \in Owners |-> 0]
    /\ hist = [o \in Owners |-> NoHist]
    /\ resp = NoResponse
    /\ _passkey_challenges = [o \in Owners |-> NoStash]


\* services.send_email: the notification is delivered, or the call raises.
SendOutcomes == {"sent", "raised"}

\* A call of send_email: the kind of notification, its recipient, the vault
\* it is about, the secret or address it carries, and what became of it.
Mail(kind, to, o, val, outcome) ==
    [kind |-> kind, to |-> to, owner |-> o, val |-> val, outcome |-> outcome]

(***************************************************************************)
(* POST /vault/create                                                      *)
(***************************************************************************)
\* The guard of lines 1076-1080: an active vault is never overwritten.
VaultExists_released(u) == u.exists /\ u.shard_c # None /\ u.is_dead

VaultExists(u) == u.exists /\ u.shard_c # None /\ ~u.is_dead

\* Lines 1082-1099: what the handler computes before it touches the row.
CreateVaultCompute_plainToken(o, u, beneficiary_email, shard_c, heartbeat_token, n1, n2) ==
    [op |-> "create", owner |-> o, insert |-> ~u.exists,
     token |-> heartbeat_token, shard |-> shard_c,
     beneficiary_email |-> beneficiary_email,
     shard_c |-> encrypt_shard(shard_c, heartbeat_token, n1),
     config_hash |-> ConfigHash(beneficiary_email, shard_c, now),
     heartbeat_token |-> heartbeat_token,
     last_heartbeat |-> now]

CreateVaultCompute(o, u, beneficiary_email, shard_c, heartbeat_token, n1, n2) ==
    [op |-> "create", owner |-> o, insert |-> ~u.exists,
     token |-> heartbeat_token, shard |-> shard_c,
     beneficiary_email |-> beneficiary_email,
     shard_c |-> encrypt_shard(shard_c, heartbeat_token, n1),
     config_hash |-> ConfigHash(beneficiary_email, shard_c, now),
     heartbeat_token |-> encrypt_token(heartbeat_token, SERVER_MASTER_KEY, n2),
     last_heartbeat |-> now]

\* Lines 1101-1105: the columns create_vault assigns.
CreateVaultAssign_revives(u, r) ==
    [u EXCEPT !.beneficiary_email = r.beneficiary_email,
              !.shard_c = r.shard_c, !.config_hash = r.config_hash,
              !.heartbeat_token = r.heartbeat_token,
              !.last_heartbeat = r.last_heartbeat, !.is_dead = FALSE]

CreateVaultAssign(u, r) ==
    [u EXCEPT !.beneficiary_email = r.beneficiary_email,
              !.shard_c = r.shard_c, !.config_hash = r.config_hash,
              !.heartbeat_token = r.heartbeat_token,
              !.last_heartbeat = r.last_heartbeat]

CreateVaultRead(c, o, b, s, n1, n2) ==
    /\ reqs[c] = Idle
    /\ IF VaultExists(users[o])
       THEN /\ resp' = Response("create_vault", o, "already_exists")
            /\ UNCHANGED <<reqs, nextTok>>
       ELSE /\ nextTok <= MaxVaults
            /\ reqs' = [reqs EXCEPT ![c] =
                   CreateVaultCompute(o, users[o], Txt(b), Txt(s), Tok(nextTok), n1, n2)]
            /\ nextTok' = nextTok + 1
            /\ resp' = NoResponse
    /\ outbox' = {}
    /\ UNCHANGED <<_passkey_challenges, now, users, sweeps, disclosed, disc, hist>>

\* db.commit() at line 1109 and the welcome e-mail of line 1201.  An INSERT of
\* an e-mail that was inserted meanwhile breaks the unique index and raises.
CreateVaultCommit(c, outcome) ==
    LET r == reqs[c]
        o == r.owner
    IN  /\ r.op = "create"
        /\ reqs' = [reqs EXCEPT ![c] = Idle]
        /\ IF r.insert /\ users[o].exists
           THEN /\ resp' = Response("create_vault", o, "error_500")
                /\ outbox' = {}
                /\ UNCHANGED <<users, hist>>
           ELSE /\ users' = [users EXCEPT ![o] =
                       CreateVaultAssign(IF r.insert THEN NewRow(now) ELSE @, r)]
                /\ outbox' = {Mail("Welcome", Txt(o), o, r.token, outcome)}
                /\ hist' = [hist EXCEPT ![o] =
                       [@ EXCEPT !.custody = r.shard, !.token = r.token,
                                 !.renewAt = NoTime, !.chg = FALSE,
                                 !.welcomed =
                                     (IF users[o].shard_c # None /\ ~users[o].is_dead
                                      THEN @ ELSE {})
                                     \cup (IF outcome = "sent" THEN {r.token} ELSE {})]]
                /\ resp' = Response("create_vault", o,
                       IF outcome = "sent" THEN "success" ELSE "error_500")
        /\ UNCHANGED <<_passkey_challenges, now, sweeps, nextTok, disclosed, disc>>

(***************************************************************************)
(* GET /heartbeat/{user_id}/{token}                                        *)
(***************************************************************************)
\* Lines 1208-1229: the outcome decided from the loaded row.
HeartbeatCheck_noDeadGuard(u, token) ==
    IF ~u.exists THEN "invalid_404"
    ELSE LET cmp == CompareDigest(decrypt_token(u.heartbeat_token, SERVER_MASTER_KEY), token)
         IN  IF ~cmp.ok THEN "error_500"
             ELSE IF ~cmp.val THEN "invalid_403"
             ELSE "renew"

HeartbeatCheck(u, token) ==
    IF ~u.exists THEN "invalid_404"
    ELSE LET cmp == CompareDigest(decrypt_token(u.heartbeat_token, SERVER_MASTER_KEY), token)
         IN  IF ~cmp.ok THEN "error_500"
             ELSE IF ~cmp.val THEN "invalid_403"
             ELSE IF u.is_dead THEN "vault_triggered"
             ELSE "renew"

HeartbeatRead(c, o, token) ==
    /\ reqs[c] = Idle
    /\ LET st == HeartbeatCheck(users[o], token)
       IN  IF st = "renew"
           THEN /\ reqs' = [reqs EXCEPT ![c] =
                       [op |-> "heartbeat", owner |-> o, last_heartbeat |-> now]]
                /\ resp' = NoResponse
           ELSE /\ resp' = Response("heartbeat", o, st)
                /\ UNCHANGED reqs
    /\ outbox' = {}
    /\ UNCHANGED <<_passkey_challenges, now, users, sweeps, nextTok, disclosed, disc, hist>>

\* Lines 1231-1232.
HeartbeatCommit_keepsClock(c) ==
    LET r == reqs[c]
        o == r.owner
    IN  /\ r.op = "heartbeat"
        /\ reqs' = [reqs EXCEPT ![c] = Idle]
        /\ hist' = [hist EXCEPT ![o].renewAt = r.last_heartbeat]
        /\ resp' = Response("heartbeat", o, "check_in")
        /\ outbox' = {}
        /\ UNCHANGED <<_passkey_challenges, now, users, sweeps, nextTok, disclosed, disc>>

HeartbeatCommit_allRows(c) ==
    LET r == reqs[c]
        o == r.owner
    IN  /\ r.op = "heartbeat"
        /\ reqs' = [reqs EXCEPT ![c] = Idle]
        /\ users' = [p \in Owners |->
               IF users[p].exists
               THEN [users[p] EXCEPT !.last_heartbeat = r.last_heartbeat]
               ELSE users[p]]
        /\ hist' = [hist EXCEPT ![o].renewAt = r.last_heartbeat]
        /\ resp' = Response("heartbeat", o, "check_in")
        /\ outbox' = {}
        /\ UNCHANGED <<_passkey_challenges, now, sweeps, nextTok, disclosed, disc>>

HeartbeatCommit(c) ==
    LET r == reqs[c]
        o == r.owner
    IN  /\ r.op = "heartbeat"
        /\ reqs' = [reqs EXCEPT ![c] = Idle]
        /\ users' = [users EXCEPT ![o].last_heartbeat = r.last_heartbeat]
        /\ hist' = [hist EXCEPT ![o].renewAt = r.last_heartbeat]
        /\ resp' = Response("heartbeat", o, "check_in")
        /\ outbox' = {}
        /\ UNCHANGED <<_passkey_challenges, now, sweeps, nextTok, disclosed, disc>>

(***************************************************************************)
(* POST /vault/change-beneficiary                                          *)
(***************************************************************************)
\* Lines 1504-1515.
ChangeCheck_noDeadGuard(u, token) ==
    IF ~u.exists THEN "not_found_404"
    ELSE LET cmp == CompareDigest(decrypt_token(u.heartbeat_token, SERVER_MASTER_KEY), token)
         IN  IF ~cmp.ok THEN "error_500"
             ELSE IF ~cmp.val THEN "invalid_403"
             ELSE "change"

ChangeCheck(u, token) ==
    IF ~u.exists THEN "not_found_404"
    ELSE LET cmp == CompareDigest(decrypt_token(u.heartbeat_token, SERVER_MASTER_KEY), token)
         IN  IF ~cmp.ok THEN "error_500"
             ELSE IF ~cmp.val THEN "invalid_403"
             ELSE IF u.is_dead THEN "triggered_409"
             ELSE "change"

\* Lines 1517-1527: the new beneficiary and the hash over the stored columns.
ChangeCompute_oldBeneficiary(o, u, new_beneficiary_email) ==
    [op |-> "change", owner |-> o,
     beneficiary_email |-> new_beneficiary_email,
     config_hash |-> ConfigHash(u.beneficiary_email, u.shard_c, u.created_at)]

ChangeCompute(o, u, new_beneficiary_email) ==
    [op |-> "change", owner |-> o,
     beneficiary_email |-> new_beneficiary_email,
     config_hash |-> ConfigHash(new_beneficiary_email, u.shard_c, u.created_at)]

ChangeBeneficiaryRead(c, o, token, b) ==
    /\ reqs[c] = Idle
    /\ LET st == ChangeCheck(users[o], token)
       IN  IF st = "change"
           THEN /\ reqs' = [reqs EXCEPT ![c] = ChangeCompute(o, users[o], Txt(b))]
                /\ resp' = NoResponse
           ELSE /\ resp' = Response("change_beneficiary", o, st)
                /\ UNCHANGED reqs
    /\ outbox' = {}
    /\ UNCHANGED <<_passkey_challenges, now, users, sweeps, nextTok, disclosed, disc, hist>>

\* db.commit() at line 1529, then the notice to the owner (line 1547).
ChangeBeneficiaryCommit_notifiesBeneficiary(c, outcome) ==
    LET r == reqs[c]
        o == r.owner
    IN  /\ r.op = "change"
        /\ reqs' = [reqs EXCEPT ![c] = Idle]
        /\ users' = [users EXCEPT ![o].beneficiary_email = r.beneficiary_email,
                                  ![o].config_hash = r.config_hash]
        /\ outbox' = {Mail("BeneficiaryChanged", r.beneficiary_email, o,
                            r.beneficiary_email, outcome)}
        /\ hist' = [hist EXCEPT ![o].chg = TRUE]
        /\ resp' = Response("change_beneficiary", o,
               IF outcome = "sent" THEN "ok" ELSE "error_500")
        /\ UNCHANGED <<_passkey_challenges, now, sweeps, nextTok, disclosed, disc>>

ChangeBeneficiaryCommit(c, outcome) ==
    LET r == reqs[c]
        o == r.owner
    IN  /\ r.op = "change"
        /\ reqs' = [reqs EXCEPT ![c] = Idle]
        /\ users' = [users EXCEPT ![o].beneficiary_email = r.beneficiary_email,
                                  ![o].config_hash = r.config_hash]
        /\ outbox' = {Mail("BeneficiaryChanged", Txt(o), o, r.beneficiary_email, outcome)}
        /\ hist' = [hist EXCEPT ![o].chg = TRUE]
        /\ resp' = Response("change_beneficiary", o,
               IF outcome = "sent" THEN "ok" ELSE "error_500")
        /\ UNCHANGED <<_passkey_challenges, now, sweeps, nextTok, disclosed, disc>>

(***************************************************************************)
(* GET|POST /api/cron/check-heartbeats                                     *)
(***************************************************************************)
\* The tier bounds of lines 1296, 1339 and 1384, in days.
REMIND_FROM == 29
REMIND_TO == 31
WARN_FROM == 59
WARN_TO == 61
RELEASE_FROM == 90

\* The if/elif chain over days_since_heartbeat.
Tier_exclusive(days) ==
    IF REMIND_FROM < days /\ days < REMIND_TO THEN "remind"
    ELSE IF WARN_FROM < days /\ days < WARN_TO THEN "warn"
    ELSE IF days > RELEASE_FROM THEN "release"
    ELSE "none"

Tier(days) ==
    IF REMIND_FROM <= days /\ days <= REMIND_TO THEN "remind"
    ELSE IF WARN_FROM <= days /\ days <= WARN_TO THEN "warn"
    ELSE IF days >= RELEASE_FROM THEN "release"
    ELSE "none"

\* Line 1279: the rows with is_dead == False and is_active == True.
ActiveUsers_ignoresBilling == {o \in Owners : users[o].exists /\ ~users[o].is_dead}

ActiveUsers == {o \in Owners : users[o].exists /\ ~users[o].is_dead /\ users[o].is_active}

\* Lines 1386-1395: the hash is recomputed over the loaded columns, unless
\* config_hash or created_at is empty, and the release is skipped on a mismatch.
ExpectedHash(u) == ConfigHash(u.beneficiary_email, u.shard_c, u.created_at)

IntegrityOk(u) ==
    IF u.config_hash # None /\ u.created_at # NoTime
    THEN ExpectedHash(u) = u.config_hash
    ELSE TRUE

\* Lines 1397-1401: the custody secret, or the stored value when opening fails.
ShardValue_sealedToken(u, heartbeat_token_plain) ==
    LET r == decrypt_shard(u.shard_c, u.heartbeat_token)
    IN  IF r.ok THEN r.val ELSE u.shard_c

ShardValue(u, heartbeat_token_plain) ==
    LET r == decrypt_shard(u.shard_c, heartbeat_token_plain)
    IN  IF r.ok THEN r.val ELSE u.shard_c

\* One pass of the loop body (lines 1282-1468) over a loaded row: the branch
\* taken, whether is_dead was set on the object, whether an error was counted,
\* and the notification handed to send_email.
ProcessUser_failedNoticeKills(o, u, at, outcome) ==
    LET heartbeat_token_plain == decrypt_token(u.heartbeat_token, SERVER_MASTER_KEY)
        tier == Tier(at - u.last_heartbeat)
        failed == outcome # "sent"
    IN  IF tier = "remind"
        THEN [tier |-> tier, dead |-> failed, err |-> failed, out |->
                {Mail("Reminder", Txt(o), o, heartbeat_token_plain, outcome)}]
        ELSE IF tier = "warn"
        THEN [tier |-> tier, dead |-> failed, err |-> failed, out |->
                {Mail("Warning", Txt(o), o, heartbeat_token_plain, outcome)}]
        ELSE IF tier = "release"
        THEN IF ~IntegrityOk(u)
             THEN [tier |-> "mismatch", dead |-> FALSE, err |-> TRUE, out |-> {}]
             ELSE [tier |-> tier, dead |-> TRUE, err |-> failed, out |->
                     {Mail("Disclosure", u.beneficiary_email, o,
                           ShardValue(u, heartbeat_token_plain), outcome)}]
        ELSE [tier |-> tier, dead |-> FALSE, err |-> FALSE, out |-> {}]

ProcessUser_silentWarning(o, u, at, outcome) ==
    LET heartbeat_token_plain == decrypt_token(u.heartbeat_token, SERVER_MASTER_KEY)
        tier == Tier(at - u.last_heartbeat)
        failed == outcome # "sent"
    IN  IF tier = "remind"
        THEN [tier |-> tier, dead |-> FALSE, err |-> failed, out |->
                {Mail("Reminder", Txt(o), o, heartbeat_token_plain, outcome)}]
        ELSE IF tier = "warn"
        THEN [tier |-> tier, dead |-> FALSE, err |-> FALSE, out |-> {}]
        ELSE IF tier = "release"
        THEN IF ~IntegrityOk(u)
             THEN [tier |-> "mismatch", dead |-> FALSE, err |-> TRUE, out |-> {}]
             ELSE [tier |-> tier, dead |-> TRUE, err |-> failed, out |->
                     {Mail("Disclosure", u.beneficiary_email, o,
                           ShardValue(u, heartbeat_token_plain), outcome)}]
        ELSE [tier |-> tier, dead |-> FALSE, err |-> FALSE, out |-> {}]

ProcessUser(o, u, at, outcome) ==
    LET heartbeat_token_plain == decrypt_token(u.heartbeat_token, SERVER_MASTER_KEY)
        tier == Tier(at - u.last_heartbeat)
        failed == outcome # "sent"
    IN  IF tier = "remind"
        THEN [tier |-> tier, dead |-> FALSE, err |-> failed, out |->
                {Mail("Reminder", Txt(o), o, heartbeat_token_plain, outcome)}]
        ELSE IF tier = "warn"
        THEN [tier |-> tier, dead |-> FALSE, err |-> failed, out |->
                {Mail("Warning", Txt(o), o, heartbeat_token_plain, outcome)}]
        ELSE IF tier = "release"
        THEN IF ~IntegrityOk(u)
             THEN [tier |-> "mismatch", dead |-> FALSE, err |-> TRUE, out |-> {}]
             ELSE [tier |-> tier, dead |-> TRUE, err |-> failed, out |->
                     {Mail("Disclosure", u.beneficiary_email, o,
                           ShardValue(u, heartbeat_token_plain), outcome)}]
        ELSE [tier |-> tier, dead |-> FALSE, err |-> FALSE, out |-> {}]

\* Lines 1275-1279: the clock is read, then the active rows are loaded.
SweepQuery(s) ==
    /\ sweeps[s] = SweepIdle
    /\ sweeps' = [sweeps EXCEPT ![s] =
           [pc |-> "loaded", at |-> now, checked |-> ActiveUsers,
            rows |-> [o \in Owners |-> IF o \in ActiveUsers THEN users[o] ELSE NoRow]]]
    /\ outbox' = {}
    /\ resp' = NoResponse
    /\ UNCHANGED <<_passkey_challenges, now, users, reqs, nextTok, disclosed, disc, hist>>

\* Lines 1281-1468: the loop over the loaded rows; send[o] is what send_email
\* does for owner o.  Rows are independent, so the loop is one step.
SweepProcess_stopsAtError(s, send) ==
    LET sw == sweeps[s]
        each == [o \in sw.checked |-> ProcessUser(o, sw.rows[o], sw.at, send[o])]
        stopped == \E o \in sw.checked : each[o].err
        res == [o \in sw.checked |->
                   IF stopped /\ ~each[o].err
                   THEN [tier |-> "none", dead |-> FALSE, err |-> FALSE, out |-> {}]
                   ELSE each[o]]
        out == UNION {res[o].out : o \in sw.checked}
        delivered == {m \in out : m.kind = "Disclosure" /\ m.outcome = "sent"}
    IN  /\ sw.pc = "loaded"
        /\ \A m \in delivered : disc[m.owner] < MaxDisclosures
        /\ sweeps' = [sweeps EXCEPT ![s] =
               [pc |-> "processed", at |-> sw.at, checked |-> sw.checked,
                tier |-> [o \in Owners |-> IF o \in sw.checked THEN res[o].tier ELSE "unread"],
                match |-> {o \in sw.checked : ExpectedHash(sw.rows[o]) = sw.rows[o].config_hash},
                dead |-> {o \in sw.checked : res[o].dead},
                errors |-> {o \in sw.checked : res[o].err}]]
        /\ outbox' = out
        /\ disclosed' = disclosed \cup
               {[owner |-> m.owner, to |-> m.to, val |-> m.val,
                 stored |-> sw.rows[m.owner].shard_c,
                 custody |-> hist[m.owner].custody] : m \in delivered}
        /\ disc' = [o \in Owners |->
               IF \E m \in delivered : m.owner = o THEN disc[o] + 1 ELSE disc[o]]
        /\ resp' = NoResponse
        /\ UNCHANGED <<_passkey_challenges, now, users, reqs, nextTok, hist>>

SweepLoop(s, send) ==
    LET sw == sweeps[s]
        res == [o \in sw.checked |-> ProcessUser(o, sw.rows[o], sw.at, send[o])]
        out == UNION {res[o].out : o \in sw.checked}
        delivered == {m \in out : m.kind = "Disclosure" /\ m.outcome = "sent"}
    IN  /\ sw.pc = "loaded"
        /\ \A m \in delivered : disc[m.owner] < MaxDisclosures
        /\ sweeps' = [sweeps EXCEPT ![s] =
               [pc |-> "processed", at |-> sw.at, checked |-> sw.checked,
                tier |-> [o \in Owners |-> IF o \in sw.checked THEN res[o].tier ELSE "unread"],
                match |-> {o \in sw.checked : ExpectedHash(sw.rows[o]) = sw.rows[o].config_hash},
                dead |-> {o \in sw.checked : res[o].dead},
                errors |-> {o \in sw.checked : res[o].err}]]
        /\ outbox' = out
        /\ disclosed' = disclosed \cup
               {[owner |-> m.owner, to |-> m.to, val |-> m.val,
                 stored |-> sw.rows[m.owner].shard_c,
                 custody |-> hist[m.owner].custody] : m \in delivered}
        /\ disc' = [o \in Owners |->
               IF \E m \in delivered : m.owner = o THEN disc[o] + 1 ELSE disc[o]]
        /\ resp' = NoResponse
        /\ UNCHANGED <<_passkey_challenges, now, users, reqs, nextTok>>

SweepProcess(s, send) == SweepLoop(s, send) /\ UNCHANGED hist

\* The same loop, noting the reminders and warnings it hands to send_email.
Noted(n, since, kinds) ==
    IF kinds = {} THEN n
    ELSE IF n.since = since THEN [n EXCEPT !.kinds = @ \cup kinds]
    ELSE [since |-> since, kinds |-> kinds]

SweepProcessNoting(s, send) ==
    /\ SweepLoop(s, send)
    /\ hist' = [o \in Owners |->
           [hist[o] EXCEPT
               !.sweptAt = sweeps[s].at,
               !.noticed = Noted(@, sweeps[s].rows[o].last_heartbeat,
                                 {m.kind : m \in {x \in outbox' : x.owner = o}}
                                     \cap {"Reminder", "Warning"})]]

\* Line 1470: the UPDATE of is_dead for the rows marked in the loop; a failed
\* commit is caught at line 1474 and nothing is written.
SweepCommit_stampsNotified(s, committed) ==
    LET sw == sweeps[s]
        newly == {o \in sw.dead : ~users[o].is_dead}
    IN  /\ sw.pc = "processed"
        /\ sweeps' = [sweeps EXCEPT ![s] = SweepIdle]
        /\ outbox' = {}
        /\ IF committed
           THEN /\ users' = [o \in Owners |->
                       IF o \in sw.dead THEN [users[o] EXCEPT !.is_dead = TRUE]
                       ELSE IF sw.tier[o] \in {"remind", "warn"}
                       THEN [users[o] EXCEPT !.last_heartbeat = sw.at]
                       ELSE users[o]]
                /\ hist' = [o \in Owners |->
                       IF o \in newly
                       THEN [hist[o] EXCEPT !.relAt = now,
                                            !.relBen = users[o].beneficiary_email,
                                            !.relChg = hist[o].chg,
                                            !.relOk = (ExpectedHash(users[o]) = users[o].config_hash)]
                       ELSE hist[o]]
                /\ resp' = Response("check_heartbeats", "o1", "ok")
           ELSE /\ resp' = Response("check_heartbeats", "o1", "error")
                /\ UNCHANGED <<users, hist>>
        /\ UNCHANGED <<_passkey_challenges, now, reqs, nextTok, disclosed, disc>>

SweepCommit(s, committed) ==
    LET sw == sweeps[s]
        newly == {o \in sw.dead : ~users[o].is_dead}
    IN  /\ sw.pc = "processed"
        /\ sweeps' = [sweeps EXCEPT ![s] = SweepIdle]
        /\ outbox' = {}
        /\ IF committed
           THEN /\ users' = [o \in Owners |->
                       IF o \in sw.dead THEN [users[o] EXCEPT !.is_dead = TRUE]
                       ELSE users[o]]
                /\ hist' = [o \in Owners |->
                       IF o \in newly
                       THEN [hist[o] EXCEPT !.relAt = now,
                                            !.relBen = users[o].beneficiary_email,
                                            !.relChg = hist[o].chg,
                                            !.relOk = (ExpectedHash(users[o]) = users[o].config_hash)]
                       ELSE hist[o]]
                /\ resp' = Response("check_heartbeats", "o1", "ok")
           ELSE /\ resp' = Response("check_heartbeats", "o1", "error")
                /\ UNCHANGED <<users, hist>>
        /\ UNCHANGED <<_passkey_challenges, now, reqs, nextTok, disclosed, disc>>

(***************************************************************************)
(* POST /stripe/webhook                                                    *)
(***************************************************************************)
\* checkout.session.completed, lines 481-501.
StripeCheckout(o) ==
    /\ users' = [users EXCEPT ![o] =
           [(IF @.exists THEN @ ELSE NewRow(now)) EXCEPT
                !.stripe_subscription_id = TRUE, !.is_active = TRUE]]
    /\ users'[o] # users[o]
    /\ resp' = Response("stripe_webhook", o, "success")
    /\ outbox' = {}
    /\ UNCHANGED <<_passkey_challenges, now, reqs, sweeps, nextTok, disclosed, disc, hist>>

\* customer.subscription.deleted, lines 504-515.
StripeCancel(o) ==
    /\ users[o].exists /\ users[o].stripe_subscription_id /\ users[o].is_active
    /\ users' = [users EXCEPT ![o].is_active = FALSE]
    /\ resp' = Response("stripe_webhook", o, "success")
    /\ outbox' = {}
    /\ UNCHANGED <<_passkey_challenges, now, reqs, sweeps, nextTok, disclosed, disc, hist>>

(***************************************************************************)
(* An edit of a stored vault that bypasses the handlers (direct database   *)
(* access): one of the three committed columns, or the stored heartbeat    *)
(* token, is overwritten.                                                  *)
(***************************************************************************)
ForgedShard == AesGcm(derive_key(Txt("mallory")), "n1", Txt("forged"))

OutOfBandEdits(u) ==
    {[u EXCEPT !.beneficiary_email = Txt("mallory")],
     [u EXCEPT !.shard_c = ForgedShard],
     [u EXCEPT !.heartbeat_token = Txt("overwritten")]}
    \cup {[u EXCEPT !.created_at = t] : t \in (Instants \cup {NoTime}) \ {u.created_at}}

Tamper(o, edited) ==
    /\ users[o].exists /\ users[o].shard_c # None
    /\ ~hist[o].oob
    /\ edited \in OutOfBandEdits(users[o])
    /\ users' = [users EXCEPT ![o] = edited]
    /\ hist' = [hist EXCEPT ![o].oob = TRUE]
    /\ outbox' = {}
    /\ resp' = NoResponse
    /\ UNCHANGED <<_passkey_challenges, now, reqs, sweeps, nextTok, disclosed, disc>>

(***************************************************************************)
(* The clock, and the system as a whole.                                   *)
(***************************************************************************)
Quiet == (\A c \in Slots : reqs[c] = Idle) /\ (\A s \in SweepIds : sweeps[s] = SweepIdle)

\* Requests and sweeps last far less than a day: days pass between them.
Tick(t) ==
    /\ Quiet
    /\ t > now
    /\ now' = t
    /\ outbox' = {}
    /\ resp' = NoResponse
    /\ UNCHANGED <<_passkey_challenges, users, reqs, sweeps, nextTok, disclosed, disc, hist>>

\* Time also passes while a request is between its read and its commit.
Elapse(t) ==
    /\ t > now
    /\ now' = t
    /\ outbox' = {}
    /\ resp' = NoResponse
    /\ UNCHANGED <<_passkey_challenges, users, reqs, sweeps, nextTok, disclosed, disc, hist>>

\* What a caller may present as the heartbeat token of owner o: a token that
\* was generated, a guess, or the value stored in the heartbeat_token column.
Presented(o) ==
    ({Tok(i) : i \in 1..(nextTok - 1)} \cup {Txt("guess"), users[o].heartbeat_token})
        \ {None}

\* The requests of the owners Os, with the custody secrets Ss.
Requests(c, Os, Ss) ==
    \/ \E o \in Os, b \in Beneficiaries, s \in Ss, n1 \in Nonces, n2 \in Nonces :
           CreateVaultRead(c, o, b, s, n1, n2)
    \/ \E outcome \in SendOutcomes : CreateVaultCommit(c, outcome)
    \/ \E o \in Os : \E token \in Presented(o) : HeartbeatRead(c, o, token)
    \/ HeartbeatCommit(c)
    \/ \E o \in Os, b \in Beneficiaries : \E token \in Presented(o) :
           ChangeBeneficiaryRead(c, o, token, b)
    \/ \E outcome \in SendOutcomes : ChangeBeneficiaryCommit(c, outcome)

Sweep(s, commits) ==
    \/ SweepQuery(s)
    \/ \E send \in [Owners -> SendOutcomes] : SweepProcess(s, send)
    \/ \E committed \in commits : SweepCommit(s, committed)

Billing(Os) ==
    \/ \E o \in Os : StripeCheckout(o)
    \/ \E o \in Os : StripeCancel(o)

Clock == \E t \in Instants : Tick(t)

\* One owner, one request at a time beside one sweep invocation; commits
\* succeed.  Billing events arrive between the requests, as the days pass.
Next ==
    \/ Requests(1, {"o1"}, Secrets)
    \/ Sweep(1, {TRUE})
    \/ Quiet /\ Billing({"o1"})
    \/ Clock

Spec == Init /\ [][Next]_vars

\* The same, where the sweep's end-of-batch commit may fail.
NextFaulty ==
    \/ Requests(1, {"o1"}, Secrets)
    \/ Sweep(1, BOOLEAN)
    \/ Quiet /\ Billing({"o1"})
    \/ Clock

SpecFaulty == Init /\ [][NextFaulty]_vars

\* Two invocations of the sweep endpoint that may overlap; commits succeed.
\* The owner's row is inserted by create_vault, active by default.
NextOverlap ==
    \/ Requests(1, {"o1"}, {"s1"})
    \/ Sweep(1, {TRUE})
    \/ Sweep(2, {TRUE})
    \/ Clock

SpecOverlap == Init /\ [][NextOverlap]_vars

\* One sweep invocation at a time, and out-of-band edits of the stored vault.
NextTamper ==
    \/ Requests(1, {"o1"}, {"s1"})
    \/ Sweep(1, {TRUE})
    \/ Quiet /\ (\E edited \in OutOfBandEdits(users["o1"]) : Tamper("o1", edited))
    \/ Clock

SpecTamper == Init /\ [][NextTamper]_vars

\* Two requests of the same owner that may overlap, and the billing webhook;
\* no sweep runs.
NextConcurrent ==
    \/ Requests(1, {"o1"}, {"s1"})
    \/ Requests(2, {"o1"}, {"s1"})
    \/ Quiet /\ Billing({"o1"})
    \/ Clock

SpecConcurrent == Init /\ [][NextConcurrent]_vars

\* Two owners and one sweep invocation: the vaults of both are created and
\* changed by requests that do not overlap, o2 may also be a row the billing
\* webhook inserted, and one batch of the sweep loads both rows.
NextBatch ==
    \/ \E o \in Owners, n1 \in Nonces, n2 \in Nonces :
           CreateVaultRead(1, o, "b1", "s1", n1, n2)
    \/ \E outcome \in SendOutcomes : CreateVaultCommit(1, outcome)
    \/ \E o \in Owners : \E token \in Presented(o) :
           ChangeBeneficiaryRead(1, o, token, "b1")
    \/ \E outcome \in SendOutcomes : ChangeBeneficiaryCommit(1, outcome)
    \/ Sweep(1, {TRUE})
    \/ Quiet /\ StripeCheckout("o2")
    \/ Clock

SpecBatch == Init /\ [][NextBatch]_vars

\* Two owners whose vaults are created one after the other, and heartbeat
\* requests for either vault that may overlap; no sweep runs.
NextRenew ==
    \/ \E o \in Owners, n1 \in Nonces, n2 \in Nonces :
           CreateVaultRead(1, o, "b1", "s1", n1, n2)
    \/ \E outcome \in SendOutcomes : CreateVaultCommit(1, outcome)
    \/ \E c \in Slots, o \in Owners : \E token \in Presented(o) :
           HeartbeatRead(c, o, token)
    \/ \E c \in Slots : HeartbeatCommit(c)
    \/ Clock

SpecRenew == Init /\ [][NextRenew]_vars

\* The vault of owner o1 as create_vault and one change_beneficiary leave it
\* on day 0, and what is remembered of it.
SettledRow ==
    LET r == CreateVaultCompute("o1", NoRow, Txt("b1"), Txt("s1"), Tok(1), "n1", "n1")
        u == CreateVaultAssign(NewRow(0), r)
        c == ChangeCompute("o1", u, Txt("b1"))
    IN  [u EXCEPT !.beneficiary_email = c.beneficiary_email,
                  !.config_hash = c.config_hash]

SettledHist ==
    [NoHist EXCEPT !.custody = Txt("s1"), !.token = Tok(1), !.chg = TRUE,
                   !.welcomed = {Tok(1)}]

InitDays ==
    /\ now = 0
    /\ users = [o \in Owners |-> IF o = "o1" THEN SettledRow ELSE NoRow]
    /\ reqs = [c \in Slots |-> Idle]
    /\ sweeps = [s \in SweepIds |-> SweepIdle]
    /\ nextTok = 2
    /\ outbox = {}
    /\ disclosed = {}
    /\ disc = [o \in Owners |-> 0]
    /\ hist = [o \in Owners |-> IF o = "o1" THEN SettledHist ELSE NoHist]
    /\ resp = NoResponse
    /\ _passkey_challenges = [o \in Owners |-> NoStash]

\* The clock moves a day at a time.
TickDay == now < MaxDay /\ Tick(now + 1)

\* The life of that vault day by day: heartbeats, and sweeps.
NextDays ==
    \/ \E token \in Presented("o1") : HeartbeatRead(1, "o1", token)
    \/ HeartbeatCommit(1)
    \/ Sweep(1, {TRUE})
    \/ TickDay

SpecDays == InitDays /\ [][NextDays]_vars

\* The cron schedule: the clock moves to the next day only after a sweep
\* that read today's clock has run its loop, so that consecutive sweeps are
\* never more than a day apart.
TickDaily == now < LastDay /\ hist["o1"].sweptAt = now /\ Tick(now + 1)

\* Days on which the owner may follow the heartbeat link: early, on and
\* after the day of the first reminder, and after the first warning.
RenewDays == {1, 29, 30, 60}

\* The life of that vault under a daily sweep: the owner renews with the
\* vault's token, before or after that day's sweep, as often as they like.
NextDaily ==
    \/ now \in RenewDays /\ HeartbeatRead(1, "o1", hist["o1"].token)
    \/ HeartbeatCommit(1)
    \/ SweepQuery(1)
    \/ \E send \in [Owners -> SendOutcomes] : SweepProcessNoting(1, send)
    \/ SweepCommit(1, TRUE)
    \/ TickDaily

SpecDaily == InitDays /\ [][NextDaily]_vars

\* The crypto functions on their own: a caller seals a value under a key
\* with a fresh nonce, and the sealed data is later opened under some key.
SealInputs == {Txt("s1"), Txt("s2"), Tok(1)}
SealKeys == {Tok(1), Tok(2), Txt("SECRET_KEY")}
SealNonces == {"n1", "n2"}

SealShard(c, s, k, n) ==
    /\ reqs[c] = Idle
    /\ reqs' = [reqs EXCEPT ![c] =
           [op |-> "sealed", kind |-> "shard", plain |-> s, key |-> k,
            data |-> encrypt_shard(s, k, n)]]
    /\ outbox' = {}
    /\ resp' = NoResponse
    /\ UNCHANGED <<_passkey_challenges, now, users, sweeps, nextTok, disclosed, disc, hist>>

SealToken(c, s, k, n) ==
    /\ reqs[c] = Idle
    /\ reqs' = [reqs EXCEPT ![c] =
           [op |-> "sealed", kind |-> "token", plain |-> s, key |-> k,
            data |-> encrypt_token(s, k, n)]]
    /\ outbox' = {}
    /\ resp' = NoResponse
    /\ UNCHANGED <<_passkey_challenges, now, users, sweeps, nextTok, disclosed, disc, hist>>

\* decrypt_shard returns or raises; decrypt_token always returns.
Open(c, k) ==
    /\ reqs[c].op = "sealed"
    /\ reqs' = [reqs EXCEPT ![c] =
           [op |-> "opened", kind |-> @.kind, plain |-> @.plain, key |-> @.key,
            data |-> @.data, with |-> k,
            result |-> IF @.kind = "shard" THEN decrypt_shard(@.data, k)
                       ELSE Ret(decrypt_token(@.data, k))]]
    /\ outbox' = {}
    /\ resp' = NoResponse
    /\ UNCHANGED <<_passkey_challenges, now, users, sweeps, nextTok, disclosed, disc, hist>>

Forget(c) ==
    /\ reqs[c].op = "opened"
    /\ reqs' = [reqs EXCEPT ![c] = Idle]
    /\ outbox' = {}
    /\ resp' = NoResponse
    /\ UNCHANGED <<_passkey_challenges, now, users, sweeps, nextTok, disclosed, disc, hist>>

\* The commitment on its own: form fields as the client sends them, any
\* non-empty string of characters, the separator among them.
FieldChars == {"a", "|"}
FormStrings ==
    {[t |-> "chars", v |-> w] :
        w \in UNION {[1..n -> FieldChars] : n \in 1..MaxFieldLen}}
CreatedTimes == {0, 1}

Commit(c, beneficiary_email, shard_c, created) ==
    /\ reqs[c] = Idle
    /\ reqs' = [reqs EXCEPT ![c] =
           [op |-> "committed", beneficiary_email |-> beneficiary_email,
            shard_c |-> shard_c, created |-> created,
            config_hash |-> ConfigHash(beneficiary_email, shard_c, created)]]
    /\ outbox' = {}
    /\ resp' = NoResponse
    /\ UNCHANGED <<_passkey_challenges, now, users, sweeps, nextTok, disclosed, disc, hist>>

Discard(c) ==
    /\ reqs[c].op = "committed"
    /\ reqs' = [reqs EXCEPT ![c] = Idle]
    /\ outbox' = {}
    /\ resp' = NoResponse
    /\ UNCHANGED <<_passkey_challenges, now, users, sweeps, nextTok, disclosed, disc, hist>>

NextCommitment ==
    \/ \E c \in Slots, b \in FormStrings, s \in FormStrings, t \in CreatedTimes :
           Commit(c, b, s, t)
    \/ \E c \in Slots : Discard(c)

SpecCommitment == Init /\ [][NextCommitment]_vars

NextCrypto ==
    \/ \E s \in SealInputs, k \in SealKeys, n \in SealNonces : SealShard(1, s, k, n)
    \/ \E s \in SealInputs, k \in SealKeys, n \in SealNonces : SealToken(1, s, k, n)
    \/ \E k \in SealKeys : Open(1, k)
    \/ Forget(1)

SpecCrypto == Init /\ [][NextCrypto]_vars

(***************************************************************************)
(* /auth/passkey/*: the in-memory store of WebAuthn challenges, keyed by   *)
(* e-mail.  In these handlers the clock counts minutes.                    *)
(***************************************************************************)
\* timedelta(minutes=5)
CHALLENGE_TTL == 5

\* The credential an owner's authenticator registers.
Credential(o) == [t |-> "cred", of |-> o]

\* Lines 1598-1602 and 1674-1678: a fresh challenge replaces the entry.
Stash(challenge) == [challenge |-> challenge, expires |-> now + CHALLENGE_TTL]

\* Lines 1624-1626 and 1694-1696.
StashUsable(stash) == stash # NoStash /\ ~(now > stash.expires)

\* GET /auth/passkey/register-options, for the owner of the session cookie.
PasskeyRegisterOptions(o) ==
    /\ nextTok < 2 + MaxChallenges
    /\ IF ~users[o].exists
       THEN /\ resp' = Response("passkey_register_options", o, "not_found_404")
            /\ UNCHANGED <<_passkey_challenges, nextTok>>
       ELSE /\ _passkey_challenges' =
                   [_passkey_challenges EXCEPT ![o] = Stash(Tok(nextTok))]
            /\ nextTok' = nextTok + 1
            /\ resp' = Response("passkey_register_options", o, "options")
    /\ outbox' = {}
    /\ UNCHANGED <<now, users, reqs, sweeps, disclosed, disc, hist>>

\* GET /auth/passkey/login-options?email=o, open to any caller.
PasskeyLoginOptions(o) ==
    /\ nextTok < 2 + MaxChallenges
    /\ _passkey_challenges' = [_passkey_challenges EXCEPT ![o] = Stash(Tok(nextTok))]
    /\ nextTok' = nextTok + 1
    /\ resp' = Response("passkey_login_options", o, "options")
    /\ outbox' = {}
    /\ UNCHANGED <<now, users, reqs, sweeps, disclosed, disc, hist>>

\* POST /auth/passkey/register up to "body = await request.json()": the
\* entry is looked up and its expiry checked before the body is awaited.
PasskeyRegisterBegin(c, o) ==
    /\ reqs[c] = Idle
    /\ IF StashUsable(_passkey_challenges[o])
       THEN /\ reqs' = [reqs EXCEPT ![c] =
                   [op |-> "passkey_register", owner |-> o,
                    stash |-> _passkey_challenges[o]]]
            /\ resp' = NoResponse
       ELSE /\ resp' = Response("passkey_register", o, "challenge_400")
            /\ UNCHANGED reqs
    /\ outbox' = {}
    /\ UNCHANGED <<_passkey_challenges, now, users, sweeps, nextTok, disclosed, disc, hist>>

\* The rest of passkey_register, lines 1628-1651.  The body answers the
\* challenge "answered"; verify_registration_response accepts it when that
\* is the expected challenge.
PasskeyRegisterFinish(c, answered) ==
    LET r == reqs[c]
        o == r.owner
    IN  /\ r.op = "passkey_register"
        /\ reqs' = [reqs EXCEPT ![c] = Idle]
        /\ outbox' = {}
        /\ IF answered # r.stash.challenge
           THEN /\ resp' = Response("passkey_register", o, "verification_400")
                /\ UNCHANGED <<users, _passkey_challenges>>
           ELSE IF ~users[o].exists
           THEN /\ resp' = Response("passkey_register", o, "not_found_404")
                /\ UNCHANGED <<users, _passkey_challenges>>
           ELSE /\ users' = [users EXCEPT ![o].passkey_credential_id = Credential(o)]
                /\ _passkey_challenges' = [_passkey_challenges EXCEPT ![o] = NoStash]
                /\ resp' = Response("passkey_register", o, "ok")
        /\ UNCHANGED <<now, sweeps, nextTok, disclosed, disc, hist>>

\* What passkey_login decides, lines 1694-1722: key is the e-mail the body
\* names, holder the owner whose credential id the body carries.
LoginCheck(key, holder, answered) ==
    IF ~StashUsable(_passkey_challenges[key]) THEN "challenge_400"
    ELSE IF users[holder].passkey_credential_id = None THEN "not_recognised_401"
    ELSE IF answered # _passkey_challenges[key].challenge THEN "failed_401"
    ELSE "ok"

\* POST /auth/passkey/login: the body is awaited first; the rest runs
\* without a pause.
PasskeyLogin(key, holder, answered) ==
    /\ IF LoginCheck(key, holder, answered) = "ok"
       THEN _passkey_challenges' = [_passkey_challenges EXCEPT ![key] = NoStash]
       ELSE UNCHANGED _passkey_challenges
    /\ resp' = Response("passkey_login", key, LoginCheck(key, holder, answered))
    /\ outbox' = {}
    /\ UNCHANGED <<now, users, reqs, sweeps, nextTok, disclosed, disc, hist>>

\* The challenges generated so far, any of which a caller may answer.
Issued == {Tok(i) : i \in 2..(nextTok - 1)}

\* The passkey handlers for o1, whose row exists, and o2, who has no row;
\* two registration requests may overlap, and minutes pass at any point.
NextPasskey ==
    \/ \E o \in Owners : PasskeyRegisterOptions(o)
    \/ \E o \in Owners : PasskeyLoginOptions(o)
    \/ \E c \in Slots, o \in Owners : PasskeyRegisterBegin(c, o)
    \/ \E c \in Slots : \E answered \in Issued : PasskeyRegisterFinish(c, answered)
    \/ \E key \in Owners, holder \in Owners : \E answered \in Issued :
           PasskeyLogin(key, holder, answered)
    \/ now < MaxMinute /\ Elapse(now + 1)

SpecPasskey == InitDays /\ [][NextPasskey]_vars

\* The comparisons of credentials on their own.  A stored credential has a
\* fixed length (token_urlsafe(32), an HMAC hex digest); a presented one is
\* any non-empty string up to that length.
CredChars == {"x", "y"}
StoredCredentials == [1..MaxCredLen -> CredChars]
PresentedCredentials == UNION {[1..n -> CredChars] : n \in 1..MaxCredLen}

\* The places where a presented credential is compared with the expected one.
Sites == {"heartbeat", "change_beneficiary", "session", "csrf"}

\* The function each site calls: secrets.compare_digest or
\* hmac.compare_digest everywhere.
Comparator_heartbeatEq(site) == IF site = "heartbeat" THEN "eq" ELSE "compare_digest"

Comparator(site) == "compare_digest"

\* The number of leading positions at which a and b agree.
MatchingPrefix(a, b) ==
    LET n == IF Len(a) < Len(b) THEN Len(a) ELSE Len(b)
        differ == {i \in 1..n : a[i] # b[i]}
    IN  IF differ = {} THEN n
        ELSE (CHOOSE i \in differ : \A j \in differ : i <= j) - 1

\* Character positions a comparison examines before it answers: a == b
\* stops at the first difference (or at once when the lengths differ),
\* compare_digest(a, b) walks over all of b whatever a holds.
CompareSteps(comparator, a, b) ==
    IF comparator = "compare_digest" THEN Len(b)
    ELSE IF Len(a) # Len(b) THEN 0
    ELSE IF a = b THEN Len(b)
    ELSE MatchingPrefix(a, b) + 1

\* The call made at a site: compare_digest(stored_token, token) in heartbeat
\* and change_beneficiary, compare_digest(signature, expected_signature) and
\* compare_digest(csrf_token, cookie_token) for the session and the CSRF token.
SiteSteps(site, stored, presented) ==
    IF site \in {"heartbeat", "change_beneficiary"}
    THEN CompareSteps(Comparator(site), stored, presented)
    ELSE CompareSteps(Comparator(site), presented, stored)

Verify(c, site, stored, presented) ==
    /\ reqs[c] = Idle
    /\ reqs' = [reqs EXCEPT ![c] =
           [op |-> "compared", site |-> site, stored |-> stored,
            presented |-> presented, equal |-> (stored = presented),
            steps |-> SiteSteps(site, stored, presented)]]
    /\ outbox' = {}
    /\ resp' = NoResponse
    /\ UNCHANGED <<_passkey_challenges, now, users, sweeps, nextTok, disclosed, disc, hist>>

Answer(c) ==
    /\ reqs[c].op = "compared"
    /\ reqs' = [reqs EXCEPT ![c] = Idle]
    /\ outbox' = {}
    /\ resp' = Response(reqs[c].site, "o1",
           IF reqs[c].equal THEN "accepted" ELSE "rejected")
    /\ UNCHANGED <<_passkey_challenges, now, users, sweeps, nextTok, disclosed, disc, hist>>

NextTiming ==
    \/ \E site \in Sites, stored \in StoredCredentials,
          presented \in PresentedCredentials : Verify(1, site, stored, presented)
    \/ Answer(1)

SpecTiming == Init /\ [][NextTiming]_vars

\* Two heartbeat requests for the vault of o1 that may overlap, under a clock
\* that does not wait for them.
NextClock ==
    \/ \E c \in Slots : \E token \in Presented("o1") : HeartbeatRead(c, "o1", token)
    \/ \E c \in Slots : HeartbeatCommit(c)
    \/ \E t \in Instants : Elapse(t)

SpecClock == InitDays /\ [][NextClock]_vars

(***************************************************************************)
(* The claims.                                                             *)
(***************************************************************************)
ReleaseTier(sw, o) == sw.tier[o] \in {"release", "mismatch"}

\* C1: a vault that only create_vault has written, read by a sweep as active
\* with 90 days or more since its last heartbeat, is marked Released by that
\* sweep and its disclosure is sent (or the send itself raised).
C1_SweepReleasesAtNinety ==
    \A s \in SweepIds : sweeps[s].pc = "processed" =>
        \A o \in sweeps[s].checked :
            (hist[o].custody # None /\ ~hist[o].chg /\ ~hist[o].oob
                /\ ReleaseTier(sweeps[s], o))
            => /\ o \in sweeps[s].dead
               /\ o \in sweeps[s].errors \/ \E d \in disclosed : d.owner = o

\* C2: every disclosure sent for a stored vault carries the custody secret
\* the owner gave to create_vault, never the stored ciphertext.
C2_DisclosureIsCustodySecret ==
    \A d \in disclosed : d.stored # None =>
        d.val = d.custody /\ d.val # d.stored /\ d.val.t = "str"

C2_Witness == \E d \in disclosed : d.stored # None /\ d.to # None

\* C3: a vault edited out of band so that the hash recomputed over its
\* columns differs from config_hash is not released by a sweep that reaches
\* the release tier: it stays alive, and an error is counted.
C3_TamperedReleaseAborts ==
    \A s \in SweepIds : sweeps[s].pc = "processed" =>
        \A o \in sweeps[s].checked :
            (hist[o].oob /\ ReleaseTier(sweeps[s], o) /\ o \notin sweeps[s].match)
            => /\ o \notin sweeps[s].dead
               /\ o \in sweeps[s].errors
               /\ sweeps[s].tier[o] = "mismatch"

\* C4: no step sets is_dead back to False.
C4_OneWayLifecycle ==
    [][\A o \in Owners : users[o].is_dead => users'[o].is_dead]_vars

C4_Witness ==
    \E o \in Owners : users[o].is_dead /\ resp = Response("create_vault", o, "success")

\* C5: a heartbeat request that arrives for a Released vault is never taken
\* up as a renewal and changes no row, and with the vault's own token it
\* answers with the vault-triggered page.
C5_NoResurrection ==
    [][\A o \in Owners : (users[o].exists /\ users[o].is_dead) =>
          /\ \A c \in Slots : reqs[c] = Idle =>
                ~(reqs'[c].op = "heartbeat" /\ reqs'[c].owner = o)
          /\ (resp'.op = "heartbeat" /\ resp'.owner = o /\ Quiet) => users' = users
          /\ hist[o].token # None /\ hist[o].token \in Presented(o)
                => HeartbeatCheck(users[o], hist[o].token) = "vault_triggered"]_vars

C5_Witness ==
    \E o \in Owners : /\ resp = Response("heartbeat", o, "vault_triggered")
                      /\ users[o].is_dead /\ users[o].last_heartbeat < now

\* C6: over any sequence of sweep runs, also when the end-of-batch commit
\* fails, the disclosure of a vault is sent at most once.
C6_DisclosedAtMostOnce == \A o \in Owners : disc[o] <= 1

\* C7: no vault is Released with a successful renewal recorded and a
\* last_heartbeat less than 90 days before is_dead was committed.
C7_NoFreshRelease ==
    \A o \in Owners :
        (users[o].is_dead /\ hist[o].relAt # NoTime /\ hist[o].renewAt # NoTime)
        => hist[o].relAt - users[o].last_heartbeat >= RELEASE_FROM

\* C8: when a change_beneficiary committed before is_dead was committed, every
\* disclosure went to the beneficiary stored at that moment, and the stored
\* hash matched the stored columns.
C8_DisclosedToStoredBeneficiary ==
    \A d \in disclosed :
        (hist[d.owner].relAt # NoTime /\ hist[d.owner].relChg)
        => d.to = hist[d.owner].relBen /\ hist[d.owner].relOk

\* C9: with two overlapping sweep invocations the disclosure of a vault is
\* still sent only once.
C9_OverlapDisclosesOnce == \A o \in Owners : ~(disc[o] > 1)

\* C10: right after create_vault succeeds, the stored config_hash is the hash
\* of the stored beneficiary_email, shard_c and created_at.
C10_CommitmentVerifiesAfterOpen ==
    \A o \in Owners : resp = Response("create_vault", o, "success")
        => users[o].config_hash = ExpectedHash(users[o])

\* C11: once a change_beneficiary has committed on a vault, the stored
\* config_hash is the hash of the stored beneficiary_email, shard_c and
\* created_at, so the sweep's integrity check passes, after any number of
\* changes.
C11_ChangeKeepsCommitment ==
    \A o \in Owners : hist[o].chg =>
        /\ users[o].config_hash = ExpectedHash(users[o])
        /\ IntegrityOk(users[o])
        /\ ProcessUser(o, users[o], users[o].last_heartbeat + RELEASE_FROM, "sent").tier
               = "release"

C11_Witness ==
    \E s \in SweepIds, o \in Owners :
        /\ sweeps[s].pc = "processed" /\ o \in sweeps[s].checked
        /\ hist[o].chg /\ sweeps[s].tier[o] = "release" /\ o \in sweeps[s].match
        /\ users[o].beneficiary_email = Txt("b2")

\* C12: a heartbeat on a vault whose columns were edited out of band, so that
\* the hash recomputed over them differs from config_hash, is not answered
\* with the check-in page and does not update last_heartbeat.
C12_RenewVerifiesCommitment ==
    [][\A o \in Owners :
          (hist[o].oob /\ users[o].config_hash # None /\ users[o].created_at # NoTime
              /\ ExpectedHash(users[o]) # users[o].config_hash)
          => /\ resp' # Response("heartbeat", o, "check_in")
             /\ \A c \in Slots : reqs[c] = Idle =>
                    ~(reqs'[c].op = "heartbeat" /\ reqs'[c].owner = o)]_vars

\* C13: once is_dead is set on a row that holds a vault, no later step
\* changes its shard_c, beneficiary_email or config_hash.
C13_ReleasedIsImmutable ==
    [][\A o \in Owners : (users[o].is_dead /\ users[o].shard_c # None) =>
          /\ users'[o].shard_c = users[o].shard_c
          /\ users'[o].beneficiary_email = users[o].beneficiary_email
          /\ users'[o].config_hash = users[o].config_hash]_vars

\* C14: after every successful create_vault the owner's vault is alive
\* (is_dead = False) with last_heartbeat = now, also when the owner's earlier
\* vault had been released.
C14_CreateYieldsActive ==
    \A o \in Owners : resp = Response("create_vault", o, "success") =>
        ~users[o].is_dead /\ users[o].last_heartbeat = now

\* C15: a create_vault that finds a row with a shard and is_dead = False is
\* answered "already exists": nothing of it goes on to the commit, no row
\* changes and no welcome e-mail is sent; and no welcome e-mail is ever sent
\* over such a row.
C15_ActiveVaultNotOverwritten ==
    [][\A o \in Owners :
          (users[o].exists /\ users[o].shard_c # None /\ ~users[o].is_dead) =>
              /\ \A c \in Slots : reqs[c] = Idle =>
                     ~(reqs'[c].op = "create" /\ reqs'[c].owner = o)
              /\ (resp'.op = "create_vault" /\ resp'.owner = o) =>
                     /\ resp'.status = "already_exists"
                     /\ users' = users
              /\ \A m \in outbox' : ~(m.kind = "Welcome" /\ m.owner = o)]_vars

C15_Witness ==
    \E o \in Owners :
        /\ resp = Response("create_vault", o, "already_exists")
        /\ users[o].shard_c # None /\ ~users[o].is_dead
        /\ hist[o].renewAt # NoTime

\* C16: at most one create_vault call reports success for the vault a row
\* holds, and a heartbeat token delivered by a successful call is the one the
\* stored row authenticates.
C16_OneCreateSucceeds ==
    \A o \in Owners :
        /\ Cardinality(hist[o].welcomed) <= 1
        /\ \A t \in hist[o].welcomed :
               decrypt_token(users[o].heartbeat_token, SERVER_MASTER_KEY) = t

\* The sweep invocation s runs its loop in this step.
Processes(s) == sweeps[s].pc = "loaded" /\ sweeps'[s].pc = "processed"

\* The kinds of the notifications the step hands to send_email for owner o.
KindsSent(o) == {m.kind : m \in {x \in outbox' : x.owner = o}}

\* C17: with d the whole days between the loaded last_heartbeat and the
\* sweep's clock, the loop sends the reminder exactly when 29 <= d <= 31, the
\* warning exactly when 59 <= d <= 61, enters the release branch exactly when
\* d >= 90, and does nothing for every other d.
C17_EscalationTiers ==
    [][\A s \in SweepIds : Processes(s) =>
          \A o \in sweeps[s].checked :
              LET d == sweeps[s].at - sweeps[s].rows[o].last_heartbeat
                  a == sweeps'[s].tier[o]
              IN  /\ (29 <= d /\ d <= 31) => a = "remind" /\ KindsSent(o) = {"Reminder"}
                  /\ (59 <= d /\ d <= 61) => a = "warn" /\ KindsSent(o) = {"Warning"}
                  /\ d >= 90 => ReleaseTier(sweeps'[s], o)
                                  /\ KindsSent(o) \subseteq {"Disclosure"}
                  /\ (d <= 28 \/ (32 <= d /\ d <= 58) \/ (62 <= d /\ d <= 89))
                         => a = "none" /\ KindsSent(o) = {}]_vars

C17_Witness ==
    \E s \in SweepIds, o \in Owners :
        /\ sweeps[s].pc = "processed" /\ o \in sweeps[s].checked
        /\ sweeps[s].tier[o] = "none"
        /\ sweeps[s].at - users[o].last_heartbeat = 32

\* C18: a heartbeat that succeeds stores last_heartbeat = now, and a sweep
\* that loads the vault less than 29 days after its last successful heartbeat
\* sees that heartbeat and does nothing for the vault, whatever it had sent
\* before.
C18_RenewResetsClock ==
    [][/\ \A o \in Owners : resp' = Response("heartbeat", o, "check_in") =>
              users'[o].last_heartbeat = now'
       /\ \A s \in SweepIds, o \in Owners :
              (hist[o].renewAt # NoTime /\ now - hist[o].renewAt < 29) =>
                  /\ (sweeps[s] = SweepIdle /\ sweeps'[s].pc = "loaded"
                          /\ o \in sweeps'[s].checked)
                     => sweeps'[s].rows[o].last_heartbeat = hist[o].renewAt
                  /\ (Processes(s) /\ o \in sweeps[s].checked
                          /\ sweeps[s].rows[o].last_heartbeat = hist[o].renewAt)
                     => sweeps'[s].tier[o] = "none" /\ KindsSent(o) = {}]_vars

C18_Witness ==
    \E s \in SweepIds, o \in Owners :
        /\ sweeps[s].pc = "processed" /\ o \in sweeps[s].checked
        /\ sweeps[s].tier[o] = "none"
        /\ hist[o].renewAt = 61 /\ users[o].last_heartbeat = 61
        /\ sweeps[s].at = 89

\* C19: a heartbeat is taken up as a renewal if and only if the row exists,
\* is not dead, and the presented token is the one the vault's create_vault
\* generated; no other presented value, the stored heartbeat_token column
\* included, renews; and last_heartbeat changes only by a check-in, a
\* create_vault or the insert of the row.
C19_RenewAuthenticated ==
    [][\A o \in Owners :
          /\ \A token \in Presented(o) :
                 HeartbeatCheck(users[o], token) = "renew"
                     <=> (users[o].exists /\ ~users[o].is_dead /\ token = hist[o].token)
          /\ \A c \in Slots :
                 (reqs[c] = Idle /\ reqs'[c].op = "heartbeat" /\ reqs'[c].owner = o)
                 => /\ users[o].exists /\ ~users[o].is_dead
                    /\ hist[o].token \in Presented(o)
                    /\ users[o].heartbeat_token # hist[o].token
          /\ users'[o].last_heartbeat # users[o].last_heartbeat
                 => \/ resp' = Response("heartbeat", o, "check_in")
                    \/ resp'.op = "create_vault" /\ resp'.owner = o
                    \/ ~users[o].exists]_vars

C19_Witness ==
    \E o \in Owners :
        /\ resp = Response("heartbeat", o, "invalid_403")
        /\ users[o].shard_c # None /\ ~users[o].is_dead
        /\ hist[o].renewAt # NoTime

\* The loop of sweep s reaches every row it loaded, whatever happens to the
\* others: each row gets a branch, and its notification is handed to
\* send_email when its days ask for one.
SweepReachesAll(s) ==
    \A o \in sweeps[s].checked :
        LET d == sweeps[s].at - sweeps[s].rows[o].last_heartbeat
        IN  /\ sweeps'[s].tier[o] = Tier(d) \/ sweeps'[s].tier[o] = "mismatch"
            /\ Tier(d) \in {"remind", "warn"} => KindsSent(o) # {}
            /\ Tier(d) = "release" =>
                   KindsSent(o) # {} \/ sweeps'[s].tier[o] = "mismatch"

\* An integrity mismatch and a send_email that raises are counted as errors.
SweepCountsRaised(s) ==
    \A o \in sweeps[s].checked :
        /\ sweeps'[s].tier[o] = "mismatch" => o \in sweeps'[s].errors
        /\ (\E m \in outbox' : m.owner = o /\ m.outcome = "raised")
               => o \in sweeps'[s].errors

\* The sweep's commit step answers with the summary.
SweepReturnsSummary(s) ==
    (sweeps[s].pc = "processed" /\ sweeps'[s] = SweepIdle)
        => resp' = Response("check_heartbeats", "o1", "ok")

Loads(s) == sweeps[s] = SweepIdle /\ sweeps'[s].pc = "loaded"

\* The sweep invocation s commits in this step.
Commits(s) == sweeps[s].pc = "processed" /\ sweeps'[s] = SweepIdle

\* C21: a sweep loads only rows that are not dead and have is_active set when
\* it reads them; it hands notifications to send_email, marks rows dead and
\* writes rows only among those it loaded, and a row it did not load is never
\* changed by its commit.
C21_SweepActsOnActiveOnly ==
    [][\A s \in SweepIds :
          /\ Loads(s) => \A o \in sweeps'[s].checked :
                 users[o].exists /\ ~users[o].is_dead /\ users[o].is_active
          /\ Processes(s) =>
                 /\ \A m \in outbox' : m.owner \in sweeps[s].checked
                 /\ sweeps'[s].dead \subseteq sweeps[s].checked
                 /\ sweeps'[s].checked = sweeps[s].checked
          /\ Commits(s) => \A o \in Owners \ sweeps[s].checked : users'[o] = users[o]]_vars

C21_Witness ==
    \E s \in SweepIds, o \in Owners :
        /\ sweeps[s].pc = "processed" /\ o \notin sweeps[s].checked
        /\ users[o].shard_c # None /\ ~users[o].is_dead /\ ~users[o].is_active
        /\ sweeps[s].at - users[o].last_heartbeat >= RELEASE_FROM

C23_UnopenedShardNotReleased ==
    [][\A s \in SweepIds : Processes(s) =>
          \A o \in sweeps[s].checked :
              LET u == sweeps[s].rows[o]
                  token == decrypt_token(u.heartbeat_token, SERVER_MASTER_KEY)
              IN  (u.shard_c # None /\ ReleaseTier(sweeps'[s], o)
                      /\ ~decrypt_shard(u.shard_c, token).ok)
                  => /\ o \notin sweeps'[s].dead
                     /\ "Disclosure" \notin KindsSent(o)]_vars

\* What the caller of heartbeat and of change_beneficiary is answered for an
\* id that has no row.
HeartbeatUnknownId == HeartbeatCheck(NoRow, Txt("guess"))
ChangeUnknownId == ChangeCheck(NoRow, Txt("guess"))

\* C24: a heartbeat or change_beneficiary that is refused because the
\* presented token is wrong for an existing vault is answered exactly like
\* one for an id that has no row.
C24_FailureIndistinguishable ==
    \A o \in Owners :
        (users[o].exists /\ users[o].heartbeat_token # None) =>
            /\ (resp.op = "heartbeat" /\ resp.owner = o
                    /\ resp.status = HeartbeatCheck(users[o], Txt("guess")))
               => resp.status = HeartbeatUnknownId
            /\ (resp.op = "change_beneficiary" /\ resp.owner = o
                    /\ resp.status = ChangeCheck(users[o], Txt("guess")))
               => resp.status = ChangeUnknownId

\* C25: no step stores a last_heartbeat smaller than the one it replaces.
C25_HeartbeatMonotone ==
    [][\A o \in Owners : users[o].exists =>
          users'[o].last_heartbeat >= users[o].last_heartbeat]_vars

\* C26: a change_beneficiary is taken up if and only if the row exists, is
\* not dead, and the presented token is the vault's; a refused one changes no
\* row and sends nothing; and beneficiary_email and config_hash change only
\* by a change_beneficiary that was taken up or by a create_vault.
C26_ChangeAuthenticated ==
    [][\A o \in Owners :
          /\ \A token \in Presented(o) :
                 ChangeCheck(users[o], token) = "change"
                     <=> (users[o].exists /\ ~users[o].is_dead /\ token = hist[o].token)
          /\ \A c \in Slots :
                 (reqs[c] = Idle /\ reqs'[c].op = "change" /\ reqs'[c].owner = o)
                 => users[o].exists /\ ~users[o].is_dead /\ hist[o].token \in Presented(o)
          /\ (resp'.op = "change_beneficiary" /\ resp'.owner = o
                  /\ resp'.status \in {"not_found_404", "error_500", "invalid_403",
                                       "triggered_409"} /\ Quiet)
                 => users' = users /\ outbox' = {}
          /\ (users'[o].beneficiary_email # users[o].beneficiary_email
                  \/ users'[o].config_hash # users[o].config_hash)
                 => resp'.owner = o /\ resp'.op \in {"change_beneficiary", "create_vault"}]_vars

C26_Witness ==
    \E o \in Owners :
        /\ resp = Response("change_beneficiary", o, "triggered_409")
        /\ users[o].is_dead /\ users[o].shard_c # None
        /\ hist[o].token \in Presented(o)

\* C27: whatever the nonce, a sealed shard opened with decrypt_shard under the
\* key it was sealed with, and a sealed token opened with decrypt_token under
\* the key it was sealed with, give back the value that was sealed.
C27_SealOpenRoundTrip ==
    \A c \in Slots :
        (reqs[c].op = "opened" /\ reqs[c].with = reqs[c].key)
        => reqs[c].result = Ret(reqs[c].plain)

C27_Witness ==
    \E c \in Slots :
        /\ reqs[c].op = "opened" /\ reqs[c].with = reqs[c].key
        /\ reqs[c].kind = "shard" /\ reqs[c].data.nonce = "n2"
        /\ reqs[c].result.ok

\* C28: sealed data opened under a key other than the one it was sealed with
\* ends in an error and gives the caller no value, for decrypt_shard and for
\* decrypt_token.
C28_WrongKeyFails ==
    \A c \in Slots :
        (reqs[c].op = "opened" /\ reqs[c].with # reqs[c].key)
        => ~reqs[c].result.ok

\* C29: two commitments over different triples (beneficiary, secret field,
\* creation time) are taken over different strings, also when a field
\* holds the separator.
C29_PreimageUnambiguous ==
    \A c \in Slots, d \in Slots :
        (/\ reqs[c].op = "committed" /\ reqs[d].op = "committed"
         /\ <<reqs[c].beneficiary_email, reqs[c].shard_c, reqs[c].created>>
                # <<reqs[d].beneficiary_email, reqs[d].shard_c, reqs[d].created>>)
        => reqs[c].config_hash.pre # reqs[d].config_hash.pre

\* C30: is_active of a stored row changes only in a step of the billing
\* webhook, and a sweep loads only rows of owners for whom a billing event
\* was received.
C30_BillingOnlyActivates ==
    [][\A o \in Owners :
          /\ (users[o].exists /\ users'[o].is_active # users[o].is_active)
                 => resp'.op = "stripe_webhook" /\ resp'.owner = o
          /\ \A s \in SweepIds :
                 (Loads(s) /\ o \in sweeps'[s].checked)
                 => users[o].stripe_subscription_id]_vars

\* The request in slot c commits a change of beneficiary in this step.
ChangeCommits(c) == reqs[c].op = "change" /\ reqs'[c] = Idle

\* C31: the step that commits a change_beneficiary hands send_email exactly
\* one BeneficiaryChanged notification, addressed to the owner and to neither
\* the old nor the new beneficiary; the new beneficiary is stored whether or
\* not the send raised; and no other step issues such a notification.
C31_ChangeNotifiesOwner ==
    [][/\ \A c \in Slots : ChangeCommits(c) =>
             LET o == reqs[c].owner
             IN  /\ users'[o].beneficiary_email = reqs[c].beneficiary_email
                 /\ users'[o].config_hash = reqs[c].config_hash
                 /\ Cardinality(outbox') = 1
                 /\ \A m \in outbox' :
                        /\ m.kind = "BeneficiaryChanged" /\ m.owner = o
                        /\ m.to = Txt(o)
                        /\ m.to \notin {users[o].beneficiary_email,
                                        users'[o].beneficiary_email}
       /\ (\E m \in outbox' : m.kind = "BeneficiaryChanged")
              => \E c \in Slots : ChangeCommits(c)]_vars

C31_Witness ==
    \E o \in Owners :
        /\ resp = Response("change_beneficiary", o, "error_500")
        /\ \E m \in outbox : m.kind = "BeneficiaryChanged" /\ m.outcome = "raised"
                                /\ m.val = users[o].beneficiary_email
        /\ hist[o].chg /\ users[o].beneficiary_email = Txt("b2")

\* C32: at every site, the positions examined to reject a wrong credential
\* are as many as for any other wrong credential of the same length,
\* whatever the length of the prefix it shares with the expected one.
C32_ConstantTimeRejection ==
    \A c \in Slots :
        (reqs[c].op = "compared" /\ ~reqs[c].equal)
        => \A other \in PresentedCredentials :
               (Len(other) = Len(reqs[c].presented) /\ other # reqs[c].stored)
               => SiteSteps(reqs[c].site, reqs[c].stored, other) = reqs[c].steps

C32_Witness ==
    \E c \in Slots :
        /\ reqs[c].op = "compared" /\ ~reqs[c].equal
        /\ reqs[c].site = "heartbeat"
        /\ Len(reqs[c].presented) = MaxCredLen
        /\ MatchingPrefix(reqs[c].stored, reqs[c].presented) = MaxCredLen - 1

\* C33: the query and the loop of a sweep write no row; its commit changes
\* no column other than is_dead, sets is_dead only from False to True, and
\* leaves every column of a row unchanged for which the loop took no branch,
\* the reminder branch or the warning branch.
C33_SweepWritesOnlyLifecycle ==
    [][\A s \in SweepIds :
          /\ (Loads(s) \/ Processes(s)) => users' = users
          /\ Commits(s) => \A o \in Owners :
                 /\ users'[o] = [users[o] EXCEPT !.is_dead = users'[o].is_dead]
                 /\ users[o].is_dead => users'[o].is_dead
                 /\ (o \notin sweeps[s].checked
                         \/ sweeps[s].tier[o] \in {"none", "remind", "warn"})
                        => users'[o] = users[o]]_vars

C33_Witness ==
    /\ resp = Response("check_heartbeats", "o1", "ok")
    /\ users["o1"].is_dead /\ hist["o1"].relAt = now
    /\ users["o2"].shard_c # None /\ ~users["o2"].is_dead /\ users["o2"].is_active
    /\ Tier(now - users["o2"].last_heartbeat) = "remind"

\* C34: for every stored vault, the heartbeat_token column is an envelope
\* that opens under the server master key to the vault's heartbeat token,
\* the shard_c column is an envelope that opens under the key derived from
\* that token to the custody secret given to create_vault, and neither
\* column holds the secret itself; heartbeats and changes of beneficiary
\* leave both columns as they are.
C34_TwoLayerSealing ==
    \A o \in Owners : users[o].shard_c # None =>
        /\ AesGcmOpen(Sha256(SERVER_MASTER_KEY), users[o].heartbeat_token)
               = Ret(hist[o].token)
        /\ decrypt_shard(users[o].shard_c, hist[o].token) = Ret(hist[o].custody)
        /\ users[o].heartbeat_token.t = "b64gcm" /\ users[o].shard_c.t = "b64gcm"
        /\ users[o].heartbeat_token # hist[o].token
        /\ users[o].shard_c # hist[o].custody

C34_Witness ==
    \E o \in Owners :
        /\ users[o].shard_c # None /\ hist[o].chg /\ hist[o].renewAt # NoTime
        /\ hist[o].token = Tok(2) /\ hist[o].custody = Txt("s1")

\* The registration in slot c succeeds in this step.
RegisterSucceeds(c) ==
    /\ reqs[c].op = "passkey_register" /\ reqs'[c] = Idle
    /\ resp' = Response("passkey_register", reqs[c].owner, "ok")

\* A login that names the e-mail key succeeds in this step.
LoginSucceeds(key) == resp' = Response("passkey_login", key, "ok")

\* C35: a registration or a login succeeds only on a challenge whose expiry
\* the clock has not passed; the step in which it succeeds removes the
\* entry of that e-mail; and while an e-mail has no entry, or an expired
\* one, no registration is taken up and every login is answered "challenge
\* expired or not found".
C35_ChallengeExpiresAndIsSingleUse ==
    [][/\ \A c \in Slots : RegisterSucceeds(c) =>
             /\ now <= reqs[c].stash.expires
             /\ _passkey_challenges'[reqs[c].owner] = NoStash
       /\ \A key \in Owners : LoginSucceeds(key) =>
             /\ StashUsable(_passkey_challenges[key])
             /\ _passkey_challenges'[key] = NoStash
       /\ \A o \in Owners : ~StashUsable(_passkey_challenges[o]) =>
             /\ \A c \in Slots :
                    ~(reqs[c] = Idle /\ reqs'[c].op = "passkey_register"
                          /\ reqs'[c].owner = o)
             /\ (resp'.op = "passkey_login" /\ resp'.owner = o)
                    => resp'.status = "challenge_400"]_vars

\* C36: a sweep's commit marks a stored vault Released only if the
\* disclosure for it was handed to send_email without an error in that
\* sweep's loop.
C36_ReleasedOnlyIfDisclosed ==
    [][\A s \in SweepIds, o \in Owners :
          (Commits(s) /\ users[o].shard_c # None
              /\ ~users[o].is_dead /\ users'[o].is_dead)
          => o \notin sweeps[s].errors]_vars

\* C37: when a sweep returns, every stored vault whose disclosure it
\* delivered is stored as Released.
C37_DisclosedOnlyIfReleased ==
    [][\A s \in SweepIds :
          Commits(s) => \A o \in sweeps[s].dead \ sweeps[s].errors :
                            users[o].shard_c # None => users'[o].is_dead]_vars

\* C38: under a daily sweep, the loop takes the release branch for a vault
\* only after a Reminder and a Warning have been handed to send_email for
\* its owner while last_heartbeat had the value it has at the release.
C38_NoSilentRelease ==
    [][\A s \in SweepIds, o \in Owners :
          (Processes(s) /\ o \in sweeps'[s].dead)
          => /\ hist[o].noticed.since = sweeps[s].rows[o].last_heartbeat
             /\ {"Reminder", "Warning"} \subseteq hist[o].noticed.kinds]_vars

C38_Witness ==
    /\ users["o1"].is_dead /\ hist["o1"].relAt # NoTime
    /\ hist["o1"].renewAt >= REMIND_FROM
    /\ hist["o1"].noticed = [since |-> hist["o1"].renewAt,
                             kinds |-> {"Reminder", "Warning"}]

\* C39: the step that commits a heartbeat changes last_heartbeat of the
\* vault it renews and no other column of any row; a heartbeat request that
\* is refused, for an unknown id or a wrong token, changes no row.
C39_RenewWritesOnlyClock ==
    [][/\ \A c \in Slots :
             (reqs[c].op = "heartbeat" /\ reqs'[c] = Idle)
             => users' = [users EXCEPT ![reqs[c].owner].last_heartbeat =
                                           reqs[c].last_heartbeat]
       /\ (resp'.op = "heartbeat" /\ resp'.status \in {"invalid_404", "invalid_403"})
             => users' = users]_vars

C39_Witness ==
    /\ resp = Response("heartbeat", "o1", "check_in")
    /\ users["o1"].last_heartbeat = now /\ users["o1"].created_at < now
    /\ users["o2"].shard_c # None /\ users["o2"].last_heartbeat < now
====
